---------------------------- MODULE Spec2Model ----------------------------
(***************************************************************************)
(* A model of chemistry/structure.py: the Structure container (change      *)
(* tracking, pruning of empty and dangling terms) and the PDB reader       *)
(* read_PDB (atom records, alternate locations, models, residue numbers    *)
(* printed in hexadecimal).                                                *)
(*                                                                         *)
(* Text fields are strings; the conversions the code applies to them       *)
(* (str.strip, int, int(.,16), float) are tables over the fields the       *)
(* specifications draw their lines from.                                   *)
(* Atom objects live in `heap` (an atom is its index there), so that two   *)
(* atoms with equal fields are still two objects.                          *)
(***************************************************************************)
EXTENDS Integers, Sequences, FiniteSets, TLC

VARIABLES
    \* ---- Structure (the object read_PDB builds, or the caller's)
    changed,          \* TrackedList.changed of each tracked sequence
    atoms,            \* struct.atoms: sequence of atom objects
    residues,         \* struct.residues: sequence of residue records
    lists,            \* the 14 term sequences: kind -> sequence of terms
    registered,       \* the atoms' term-membership lists: {<<atom, term id>>}
    ndelete,          \* per term object: how often its delete() was called
    pruned,           \* the terms the last prune_empty_terms() took out, until the next edit
    box,              \* struct.box
    pdbxyz,           \* struct.pdbxyz (set when read_PDB returns)
    heap,             \* every Atom object created so far
    \* ---- locals of read_PDB
    fileobj,          \* the lines the loop has consumed so far
    line,             \* the loop variable: the line being processed
    modelno, atomno, coordinates, all_coordinates,
    last_atom, last_resid, res_hex, atom_hex,
    \* ---- control
    pc,               \* "reading" | "returned" | "raised"
    err,              \* the exception raised ("none" when none)
    op,               \* the last operation the caller applied to the structure
    ret,              \* what the last is_changed() call returned
    nmut,             \* caller mutations since the structure was handed over
    \* ---- the input handle and the metadata attributes
    meta              \* [own_handle, handle, stage, attrs, keywords, warnings]

structVars  == <<changed, atoms, residues, lists, registered, ndelete, pruned, box,
                 pdbxyz, heap>>
parserVars  == <<fileobj, line, modelno, atomno, coordinates, all_coordinates,
                 last_atom, last_resid, res_hex, atom_hex>>
controlVars == <<pc, err, op, ret, nmut>>
vars        == <<structVars, parserVars, controlVars, meta>>

\* Python's None where an atom, a residue or a residue number is expected
\* (atoms and residues are counted from 1, residue numbers are positive)
None == 0
\* struct.box = None; struct.pdbxyz before read_PDB sets it
NoBox == <<>>

(***************************************************************************)
(* Bounds of the model.                                                    *)
(***************************************************************************)
\* lines a parse consumes, per specification
MaxLinesModels == 7
MaxLinesAltloc == 4
MaxLinesHex    == 5
MaxLinesFlags  == 2
MaxLinesMeta   == 5
MaxLinesKeywords == 4
MaxLinesElem   == 2
MaxLinesTopo   == 5
MaxLinesSerial == 3
\* terms the caller appends to a structure
MaxTerms       == 2
\* caller mutations of tracked sequences after a structure is handed over
MaxMutations   == 2
\* atoms the caller removes from a structure
MaxRemovals    == 1

(***************************************************************************)
(* Structure.__init__: the tracked sequences.                              *)
(***************************************************************************)
\* the 14 term sequences, in the order prune_empty_terms sweeps them
TermKinds ==
    <<"bonds", "angles", "dihedrals", "urey_bradleys", "impropers", "cmaps",
      "trigonal_angles", "out_of_plane_bends", "pi_torsions", "stretch_bends",
      "torsion_torsions", "chiral_frames", "multipole_frames", "adjusts">>

TermKindSet == {TermKinds[i] : i \in 1..Len(TermKinds)}

ExtraLists == {"acceptors", "donors", "groups"}

TypeLists ==
    {"bond_types", "angle_types", "dihedral_types", "urey_bradley_types",
     "improper_types", "cmap_types", "trigonal_angle_types",
     "out_of_plane_bend_types", "pi_torsion_types", "stretch_bend_types",
     "torsion_torsion_types", "adjust_types"}

\* every TrackedList attribute Structure.__init__ creates
Tracked == {"atoms", "residues"} \cup TermKindSet \cup ExtraLists \cup TypeLists

\* number of atom slots of a term of each kind (atom1..atomN, or `atom`)
Arity(kind) ==
    CASE kind \in {"multipole_frames"} -> 1
      [] kind \in {"bonds", "urey_bradleys", "chiral_frames", "adjusts"} -> 2
      [] kind \in {"angles", "stretch_bends"} -> 3
      [] kind \in {"dihedrals", "impropers", "trigonal_angles",
                   "out_of_plane_bends"} -> 4
      [] kind \in {"cmaps", "torsion_torsions"} -> 5
      [] kind \in {"pi_torsions"} -> 6

\* the kinds whose _prune_empty_* calls term.delete() on a dangling term
DeleteKinds == {"bonds", "angles", "dihedrals", "urey_bradleys", "impropers",
                "cmaps", "torsion_torsions"}

\* a fresh Structure()
NewChanged == [n \in Tracked |-> FALSE]
NewLists   == [k \in TermKindSet |-> <<>>]

(***************************************************************************)
(* TrackedList / AtomList (chemistry.topologyobjects).                     *)
(***************************************************************************)
\* atom.idx: the atom's position in struct.atoms (0-based), -1 once removed
Idx(a, atomseq) ==
    IF \E i \in 1..Len(atomseq) : atomseq[i] = a
    THEN (CHOOSE i \in 1..Len(atomseq) : atomseq[i] = a) - 1
    ELSE -1

\* C20 mutant: the entry before the one meant is deleted
DelAt_offbyone(seq, i) ==
    IF i > 1
    THEN SubSeq(seq, 1, i - 2) \o SubSeq(seq, i, Len(seq))
    ELSE SubSeq(seq, 2, Len(seq))

\* del seq[i]  (i is 1-based here)
DelAt(seq, i) == SubSeq(seq, 1, i - 1) \o SubSeq(seq, i + 1, Len(seq))

(***************************************************************************)
(* Structure.is_changed                                                    *)
(***************************************************************************)
is_changed ==
    \/ changed["atoms"] \/ changed["residues"]
    \/ changed["bonds"] \/ changed["trigonal_angles"]
    \/ changed["dihedrals"] \/ changed["urey_bradleys"]
    \/ changed["impropers"] \/ changed["cmaps"]
    \/ changed["angles"] \/ changed["out_of_plane_bends"]
    \/ changed["pi_torsions"] \/ changed["stretch_bends"]
    \/ changed["torsion_torsions"] \/ changed["chiral_frames"]
    \/ changed["multipole_frames"] \/ changed["adjusts"]
    \/ changed["acceptors"] \/ changed["donors"]
    \/ changed["groups"] \/ changed["bond_types"]
    \/ changed["angle_types"] \/ changed["dihedral_types"]
    \/ changed["urey_bradley_types"] \/ changed["cmap_types"]
    \/ changed["improper_types"] \/ changed["adjust_types"]
    \/ changed["trigonal_angle_types"]
    \/ changed["out_of_plane_bends"]
    \/ changed["stretch_bend_types"]
    \/ changed["torsion_torsion_types"]
    \/ changed["pi_torsion_types"]


(***************************************************************************)
(* Structure.unchange                                                      *)
(***************************************************************************)
\* the sequences whose flag unchange() assigns False
UnchangeNames ==
    {"atoms", "residues", "bonds", "angles", "dihedrals", "urey_bradleys",
     "impropers", "cmaps", "trigonal_angles", "out_of_plane_bends",
     "pi_torsions", "stretch_bends", "torsion_torsions", "chiral_frames",
     "multipole_frames", "adjusts", "acceptors", "donors", "groups",
     "bond_types", "angle_types", "dihedral_types", "urey_bradley_types",
     "improper_types", "cmap_types", "trigonal_angle_types",
     "out_of_plane_bend_types", "pi_torsion_types", "stretch_bend_types",
     "torsion_torsion_types", "adjust_types"}

\* C11 mutant: unchange() that forgets the groups list
unchange_keeps_groups(flags) ==
    [n \in DOMAIN flags |->
        IF n \in UnchangeNames \ {"groups"} THEN FALSE ELSE flags[n]]

\* C10 mutant: unchange() that leaves atoms.changed as it is
unchange_keeps_atoms(flags) ==
    [n \in DOMAIN flags |->
        IF n \in UnchangeNames \ {"atoms"} THEN FALSE ELSE flags[n]]

unchange(flags) ==
    [n \in Tracked |-> IF n \in UnchangeNames THEN FALSE ELSE flags[n]]

(***************************************************************************)
(* Structure.prune_empty_terms and the 14 _prune_empty_* sweeps.           *)
(* A term is [id, slots]; a slot is None or an atom.  The sweeps work on   *)
(* st = [lists, registered, ndelete, changed, raised, atoms]; `raised`     *)
(* records the AttributeError of reading .idx of a None slot, which ends   *)
(* prune_empty_terms where it stands.                                      *)
(***************************************************************************)
AllNone(slots) == \A j \in 1..Len(slots) : slots[j] = None
AnyNone(slots) == \E j \in 1..Len(slots) : slots[j] = None

\* C2 mutant: only the first atom of the term is tested for idx -1
OrIdx_first(slots, atomseq) ==
    IF slots[1] = None THEN "raise"
    ELSE IF Idx(slots[1], atomseq) = -1 THEN "true"
    ELSE "false"

\* a1.idx == -1 or a2.idx == -1 or ... , evaluated left to right with
\* short-circuit: "true", "false", or "raise" when a None slot is reached
\* before an atom with idx -1
OrIdx(slots, atomseq) ==
    LET bad == {j \in 1..Len(slots) :
                    slots[j] = None \/ Idx(slots[j], atomseq) = -1}
    IN  IF bad = {} THEN "false"
        ELSE LET j == CHOOSE k \in bad : \A m \in bad : k <= m
             IN  IF slots[j] = None THEN "raise" ELSE "true"

\* C16 mutant: a dangling term is removed without its delete()
TestAllNoneThenIdx_nodelete(kind, slots, atomseq) ==
    IF AllNone(slots) THEN "del"
    ELSE CASE OrIdx(slots, atomseq) = "raise" -> "raise"
           [] OrIdx(slots, atomseq) = "true"  -> "del"
           [] OTHER -> "keep"

\* if <all slots None>: del ... elif <OrIdx>: [delete();] del
\* (bonds .. torsion_torsions)
TestAllNoneThenIdx(kind, slots, atomseq) ==
    IF AllNone(slots) THEN "del"
    ELSE CASE OrIdx(slots, atomseq) = "raise" -> "raise"
           [] OrIdx(slots, atomseq) = "true"  ->
                  IF kind \in DeleteKinds THEN "delete" ELSE "del"
           [] OTHER -> "keep"

\* C19 mutant: a term with an unset atom is removed only when all are unset
TestAnyNoneThenIdx_allnone(slots, atomseq) ==
    IF AllNone(slots) THEN "del"
    ELSE IF AnyNone(slots) THEN "keep"
    ELSE IF OrIdx(slots, atomseq) = "true" THEN "del" ELSE "keep"

\* if a1 is None or a2 is None: del ... elif <OrIdx>: del
\* (chiral_frames, adjusts); multipole_frames is the one-slot form
TestAnyNoneThenIdx(slots, atomseq) ==
    IF AnyNone(slots) THEN "del"
    ELSE IF OrIdx(slots, atomseq) = "true" THEN "del" ELSE "keep"

TermTest(kind, slots, atomseq) ==
    IF kind \in {"chiral_frames", "multipole_frames", "adjusts"}
    THEN TestAnyNoneThenIdx(slots, atomseq)
    ELSE TestAllNoneThenIdx(kind, slots, atomseq)

\* term.delete(): the term leaves the membership lists of its atoms
TermDelete(st, t) ==
    [st EXCEPT !.registered = {p \in @ : p[2] # t.id},
               !.ndelete[t.id] = @ + 1]

\* for i in reversed(xrange(len(seq))): the body for index i, then the rest
RECURSIVE Sweep(_, _, _)
Sweep(kind, st, i) ==
    IF i = 0 \/ st.raised THEN st
    ELSE LET t == st.lists[kind][i]
             r == TermTest(kind, t.slots, st.atoms)
             removed == [st EXCEPT !.lists[kind] = DelAt(@, i),
                                   !.changed[kind] = TRUE]
         IN  CASE r = "raise"  -> [st EXCEPT !.raised = TRUE]
               [] r = "keep"   -> Sweep(kind, st, i - 1)
               [] r = "del"    -> Sweep(kind, removed, i - 1)
               [] r = "delete" -> Sweep(kind, TermDelete(removed, t), i - 1)

SweepAll(kind, st) ==
    IF st.raised THEN st ELSE Sweep(kind, st, Len(st.lists[kind]))

prune_empty_bonds(st)              == SweepAll("bonds", st)
prune_empty_angles(st)             == SweepAll("angles", st)
prune_empty_dihedrals(st)          == SweepAll("dihedrals", st)
prune_empty_ureys(st)              == SweepAll("urey_bradleys", st)
prune_empty_impropers(st)          == SweepAll("impropers", st)
prune_empty_cmaps(st)              == SweepAll("cmaps", st)
prune_empty_trigonal_angles(st)    == SweepAll("trigonal_angles", st)
prune_empty_out_of_plane_bends(st) == SweepAll("out_of_plane_bends", st)
prune_empty_pi_torsions(st)        == SweepAll("pi_torsions", st)
prune_empty_stretch_bends(st)      == SweepAll("stretch_bends", st)
prune_empty_torsion_torsions(st)   == SweepAll("torsion_torsions", st)
prune_empty_chiral_frames(st)      == SweepAll("chiral_frames", st)
prune_empty_multipole_frames(st)   == SweepAll("multipole_frames", st)
prune_empty_adjusts(st)            == SweepAll("adjusts", st)

prune_empty_terms(st) ==
    prune_empty_adjusts(
    prune_empty_multipole_frames(
    prune_empty_chiral_frames(
    prune_empty_torsion_torsions(
    prune_empty_stretch_bends(
    prune_empty_pi_torsions(
    prune_empty_out_of_plane_bends(
    prune_empty_trigonal_angles(
    prune_empty_cmaps(
    prune_empty_impropers(
    prune_empty_ureys(
    prune_empty_dihedrals(
    prune_empty_angles(
    prune_empty_bonds(st))))))))))))))

(***************************************************************************)
(* Text conversions, as tables over the fields the lines are drawn from.   *)
(***************************************************************************)
\* str.strip()
StripPairs ==
    {<<" N  ", "N">>, <<" CA ", "CA">>, <<" CB ", "CB">>, <<"    ", "">>,
     <<" ", "">>, <<"  ", "">>, <<" 2", "2">>, <<" X  ", "X">>,
     <<"Q   ", "Q">>, <<"ZN  ", "ZN">>}
Strip(s) ==
    IF \E p \in StripPairs : p[1] = s
    THEN (CHOOSE p \in StripPairs : p[1] = s)[2]
    ELSE s

\* int(s): the fields that are decimal numbers, with their values
DecPairs ==
    {<<"   1", 1>>, <<"   2", 2>>, <<"  10", 10>>, <<"9998", 9998>>,
     <<"9999", 9999>>, <<"2710", 2710>>, <<"2711", 2711>>,
     <<"    1", 1>>, <<"    2", 2>>, <<"   10", 10>>, <<"99999", 99999>>}
IsDec(s)  == \E p \in DecPairs : p[1] = s
DecVal(s) == (CHOOSE p \in DecPairs : p[1] = s)[2]

\* int(s, 16): the fields that are hexadecimal numbers, with their values
HexPairs ==
    {<<"   1", 1>>, <<"   2", 2>>, <<"  10", 16>>, <<"9998", 39320>>,
     <<"9999", 39321>>, <<"2710", 10000>>, <<"2711", 10001>>,
     <<"270F", 9999>>, <<"    1", 1>>, <<"    2", 2>>, <<"186A0", 100000>>,
     <<"   10", 16>>, <<"99999", 629145>>}
IsHex(s)  == \E p \in HexPairs : p[1] = s
HexVal(s) == (CHOOSE p \in HexPairs : p[1] = s)[2]

\* float(s), in thousandths
FloatPairs ==
    {<<"1.000", 1000>>, <<"2.000", 2000>>, <<"3.000", 3000>>,
     <<"4.000", 4000>>, <<"5.000", 5000>>, <<"6.000", 6000>>,
     <<"-1.500", -1500>>, <<"0.500", 500>>}
IsFloat(s)  == \E p \in FloatPairs : p[1] = s
FloatVal(s) == (CHOOSE p \in FloatPairs : p[1] = s)[2]

\* try: v = float(s) / except ValueError: v = default
FloatOr(s, default) == IF IsFloat(s) THEN FloatVal(s) ELSE default

(***************************************************************************)
(* chemistry.periodic_table: AtomicNum and Mass (thousandths), the part    *)
(* the lines use.                                                          *)
(***************************************************************************)
Elements ==
    {<<"H", 1, 1008>>, <<"C", 6, 12011>>, <<"N", 7, 14007>>,
     <<"O", 8, 15999>>, <<"Ca", 20, 40078>>, <<"Fe", 26, 55845>>,
     <<"Zn", 30, 65380>>}
KnownSym(sym) == \E e \in Elements : e[1] = sym
AtomicNum(sym) == (CHOOSE e \in Elements : e[1] = sym)[2]
Mass(sym)      == (CHOOSE e \in Elements : e[1] = sym)[3]

\* elem = '%-2s' % elem; if elem[0] == ' ': elem = elem[1] + ' ';
\* atsym = (elem[0] + elem[1].lower()).strip()
AtSymPairs ==
    {<<"  ", "">>, <<" C", "C">>, <<" N", "N">>, <<"C ", "C">>,
     <<"CA", "Ca">>, <<"FE", "Fe">>, <<"XX", "Xx">>}
AtSym(elem) == (CHOOSE p \in AtSymPairs : p[1] = elem)[2]

\* s[0] of a stripped atom name, and str.upper / str.lower of one character
FirstChar(s) == CASE s \in {"N"} -> "N" [] s \in {"CA", "CB"} -> "C"
                  [] s \in {"X"} -> "X" [] s \in {"Q"} -> "Q"
                  [] s \in {"ZN"} -> "Z"
Upper(c) == CASE c = "n" -> "N" [] c = "c" -> "C" [] OTHER -> c
Lower(c) == CASE c = "N" -> "n" [] c = "C" -> "c" [] c = "X" -> "x"
              [] c = "Q" -> "q" [] c = "Z" -> "z"

\* lines 542-563: [err, atomic_number, mass]
ResolveElement(l) ==
    LET atsym == AtSym(l.elem)
        name  == Strip(l.atname)
    IN  IF KnownSym(atsym)
        THEN [err |-> "none", atomic_number |-> AtomicNum(atsym),
              mass |-> Mass(atsym)]
        ELSE IF name = ""
        THEN [err |-> "IndexError", atomic_number |-> 0, mass |-> 0]
        ELSE IF KnownSym(Upper(FirstChar(name)))
        THEN [err |-> "none",
              atomic_number |-> AtomicNum(Upper(FirstChar(name))),
              mass |-> Mass(Upper(FirstChar(name)))]
        ELSE LET sym == Upper(FirstChar(name)) \o Lower(FirstChar(name))
             IN  IF KnownSym(sym)
                 THEN [err |-> "none", atomic_number |-> AtomicNum(sym),
                       mass |-> Mass(sym)]
                 ELSE [err |-> "none", atomic_number |-> 0, mass |-> 0]

(***************************************************************************)
(* read_PDB, lines 572-592: the residue number of a record.                *)
(* [err, resid, res_hex]; resid is None for a "****" field in hex mode.    *)
(***************************************************************************)
\* resid = int(resid)
IntResid(field, hex) ==
    IF IsDec(field)
    THEN [err |-> "none", resid |-> DecVal(field), res_hex |-> hex]
    ELSE [err |-> "ValueError", resid |-> None, res_hex |-> hex]

\* C7 mutant: the field is read in base 10 although hex mode is on
HexResid_decimal(field) ==
    IF IsDec(field)
    THEN [err |-> "none", resid |-> DecVal(field), res_hex |-> TRUE]
    ELSE IF field = "****"
    THEN [err |-> "none", resid |-> None, res_hex |-> TRUE]
    ELSE [err |-> "ValueError", resid |-> None, res_hex |-> TRUE]

\* try: resid = int(resid, 16) / except ValueError: "****" -> None, else raise
HexResid(field) ==
    IF IsHex(field)
    THEN [err |-> "none", resid |-> HexVal(field), res_hex |-> TRUE]
    ELSE IF field = "****"
    THEN [err |-> "none", resid |-> None, res_hex |-> TRUE]
    ELSE [err |-> "ValueError", resid |-> None, res_hex |-> TRUE]

\* C8 mutant: hex mode is entered by any field that parses as hexadecimal
ResolveResid_anyhex(field, lastResid, hex) ==
    IF lastResid >= 9999
    THEN IF ~hex /\ field = "9999"
         THEN [err |-> "none", resid |-> 9999, res_hex |-> FALSE]
         ELSE IF ~hex /\ ~IsHex(field)
         THEN [err |-> "ValueError", resid |-> None, res_hex |-> FALSE]
         ELSE HexResid(field)
    ELSE IntResid(field, hex)

ResolveResid(field, lastResid, hex) ==
    IF lastResid >= 9999
    THEN IF ~hex /\ field = "9999"
         THEN [err |-> "none", resid |-> 9999, res_hex |-> FALSE]
         ELSE IF ~hex
         THEN \* res_hex = int(resid, 16) == 10000
              IF ~IsHex(field)
              THEN [err |-> "ValueError", resid |-> None, res_hex |-> FALSE]
              ELSE IF HexVal(field) = 10000
              THEN HexResid(field)
              ELSE IntResid(field, FALSE)
         ELSE HexResid(field)
    ELSE IntResid(field, hex)

\* C24 mutant: a field that parses as decimal is read as decimal and
\* switches hex mode off
ParseAtnum_decimalfirst(field, hex) ==
    IF IsDec(field)
    THEN [err |-> "none", atnum |-> DecVal(field), atom_hex |-> FALSE]
    ELSE IF IsHex(field)
    THEN [err |-> "none", atnum |-> HexVal(field), atom_hex |-> TRUE]
    ELSE [err |-> "ValueError", atnum |-> None, atom_hex |-> hex]

\* lines 593-601: the atom serial number: [err, atnum, atom_hex]
ParseAtnum(field, hex) ==
    IF hex
    THEN \* atnum = int(atnum, 16)
         IF IsHex(field)
         THEN [err |-> "none", atnum |-> HexVal(field), atom_hex |-> TRUE]
         ELSE [err |-> "ValueError", atnum |-> None, atom_hex |-> TRUE]
    ELSE IF IsDec(field)
    THEN [err |-> "none", atnum |-> DecVal(field), atom_hex |-> FALSE]
    ELSE \* except ValueError: atnum = int(atnum, 16); atom_hex = True
         IF IsHex(field)
         THEN [err |-> "none", atnum |-> HexVal(field), atom_hex |-> TRUE]
         ELSE [err |-> "ValueError", atnum |-> None, atom_hex |-> FALSE]

\* lines 607-614: a "****" residue number is settled by the atom names of
\* the last residue
InferResid(resid, atname, lastResid, resseq, atomheap) ==
    IF resid # None THEN resid
    ELSE LET last == resseq[Len(resseq)]
         IN  IF \E i \in 1..Len(last.atoms) :
                     atomheap[last.atoms[i]].name = atname
             THEN lastResid + 1
             ELSE lastResid

(***************************************************************************)
(* Atom, Residue and ResidueList.add_atom (chemistry.topologyobjects).     *)
(***************************************************************************)
\* Atom(name=..., altloc=..., ...): the name is kept stripped, the atom has
\* no residue and no alternate locations yet
NewAtom(name, altloc, number, mass, charge, occupancy, bfactor) ==
    [name |-> Strip(name), altloc |-> altloc, atomic_number |-> number,
     mass |-> mass, charge |-> charge, occupancy |-> occupancy,
     bfactor |-> bfactor, xx |-> 0, xy |-> 0, xz |-> 0,
     residue |-> None, other_locations |-> {}]

\* Atom(): last_atom before the first record
BlankAtom == NewAtom("", "", 0, 0, 0, 0, 0)

\* d[key] = value on a dict kept as a set of <<key, value>>
DictSet(d, key, value) == {p \in d : p[1] # key} \cup {<<key, value>>}

NewResidue(resname, resid, chain, inscode) ==
    [name |-> Strip(resname), number |-> resid, chain |-> Strip(chain),
     insertion_code |-> Strip(inscode), atoms |-> <<>>, ter |-> FALSE]

\* does add_atom open a new residue?
OpensResidue(resseq, resname, resid, chain, inscode) ==
    \/ Len(resseq) = 0
    \/ LET last == resseq[Len(resseq)]
       IN  \/ last.name # Strip(resname) \/ last.number # resid
           \/ last.chain # Strip(chain)
           \/ last.insertion_code # Strip(inscode)

\* struct.residues.add_atom(atom, resname, resid, chain, inscode):
\* the residue sequence afterwards (the atom joins its last residue)
add_atom(resseq, a, resname, resid, chain, inscode) ==
    LET seq == IF OpensResidue(resseq, resname, resid, chain, inscode)
               THEN Append(resseq, NewResidue(resname, resid, chain, inscode))
               ELSE resseq
    IN  [seq EXCEPT ![Len(seq)].atoms = Append(@, a)]

(***************************************************************************)
(* _compare_atoms: "true", "false", or "raise" (old_atom.residue is None   *)
(* where .name is read of it).                                             *)
(***************************************************************************)
\* C5 mutant: the chain identifier is not compared
compare_atoms_nochain(old, new, resname, resid, chain, resseq) ==
    IF old.name # new.name THEN "false"
    ELSE IF old.residue = None THEN "raise"
    ELSE IF resseq[old.residue].name # resname THEN "false"
    ELSE IF resseq[old.residue].number # resid THEN "false"
    ELSE "true"

compare_atoms(old, new, resname, resid, chain, resseq) ==
    IF old.name # new.name THEN "false"
    ELSE IF old.residue = None THEN "raise"
    ELSE IF resseq[old.residue].name # resname THEN "false"
    ELSE IF resseq[old.residue].number # resid THEN "false"
    ELSE IF resseq[old.residue].chain # Strip(chain) THEN "false"
    ELSE "true"

(***************************************************************************)
(* The lines of a PDB file, by their fixed columns.                        *)
(***************************************************************************)
NoLine ==
    [rec |-> "", atnum |-> "", atname |-> "", altloc |-> "", resname |-> "",
     chain |-> "", resid |-> "", inscode |-> "", x |-> "", y |-> "", z |-> "",
     occupancy |-> "", bfactor |-> "", elem |-> "", chg |-> "",
     cell |-> <<>>, part |-> "", cont |-> "", text |-> <<>>]

RecLine(rec) == [NoLine EXCEPT !.rec = rec]

AtomLine(atname, altloc, resname, chain, resid, xyz) ==
    [NoLine EXCEPT !.rec = "ATOM  ", !.atnum = "    1", !.atname = atname,
                   !.altloc = altloc, !.resname = resname, !.chain = chain,
                   !.resid = resid, !.inscode = " ",
                   !.x = xyz[1], !.y = xyz[2], !.z = xyz[3],
                   !.occupancy = "1.000", !.bfactor = "0.500",
                   !.elem = "  ", !.chg = "  "]

\* C9 mutant: a frame shorter than the atom list passes the check
FrameComplete_atmost(natoms, ncoords) == natoms * 3 >= ncoords

\* len(struct.atoms)*3 != len(coordinates), negated (655, 664, 725)
FrameComplete(natoms, ncoords) == natoms * 3 = ncoords

\* C6 mutant: the y coordinate is stored twice
Coords_xyy(atom) == <<atom.xx, atom.xy, atom.xy>>

\* coordinates.extend([atom.xx, atom.xy, atom.xz])
Coords(atom) == <<atom.xx, atom.xy, atom.xz>>

(***************************************************************************)
(* read_PDB: the body of the loop for one ATOM/HETATM record (535-647).    *)
(* The result is the first exception raised, or the new values.            *)
(***************************************************************************)
AtomRecord(l) ==
    LET el    == ResolveElement(l)
        rr    == ResolveResid(l.resid, last_resid, res_hex)
        an    == ParseAtnum(l.atnum, atom_hex)
        noRes == rr.err = "none" /\ rr.resid = None /\ Len(residues) = 0
        resid == IF rr.err = "none" /\ ~noRes
                 THEN InferResid(rr.resid, l.atname, last_resid, residues,
                                 heap)
                 ELSE None
        xyzOK == IsFloat(l.x) /\ IsFloat(l.y) /\ IsFloat(l.z)
        atom  == [NewAtom(l.atname, l.altloc, el.atomic_number, el.mass,
                          FloatOr(l.chg, 0), FloatOr(l.occupancy, 0),
                          FloatOr(l.bfactor, 0))
                     EXCEPT !.xx = FloatOr(l.x, 0), !.xy = FloatOr(l.y, 0),
                            !.xz = FloatOr(l.z, 0)]
        id    == Len(heap) + 1
        same  == IF resid = None \/ ~xyzOK THEN "false"
                 ELSE compare_atoms(heap[last_atom], atom, l.resname, resid,
                                    l.chain, residues)
        early == IF el.err # "none" THEN el.err
                 ELSE IF rr.err # "none" THEN rr.err
                 ELSE IF an.err # "none" THEN an.err
                 ELSE IF noRes THEN "IndexError"
                 ELSE IF ~xyzOK THEN "ValueError"
                 ELSE IF same = "raise" THEN "AttributeError"
                 ELSE "none"
        base  == [err |-> early, heap |-> heap, atoms |-> atoms,
                  residues |-> residues, changed |-> changed,
                  coordinates |-> coordinates, last_atom |-> last_atom,
                  last_resid |-> IF resid = None THEN last_resid ELSE resid,
                  res_hex |-> rr.res_hex, atom_hex |-> an.atom_hex]
        xyz   == Coords(atom)
    IN  IF early # "none" THEN base
        ELSE IF same = "true"
        THEN \* an alternate location of last_atom (625-627)
             [base EXCEPT
                 !.heap = Append(
                     [heap EXCEPT ![last_atom].other_locations =
                                      DictSet(@, l.altloc, id)],
                     [atom EXCEPT !.residue = heap[last_atom].residue])]
        ELSE IF modelno = 1
        THEN \* a new atom of the first model (628-632, 647)
             LET resseq == add_atom(residues, id, l.resname, resid, l.chain,
                                    l.inscode)
             IN  [base EXCEPT
                     !.heap = Append(heap,
                                 [atom EXCEPT !.residue = Len(resseq)]),
                     !.last_atom = id,
                     !.residues = resseq,
                     !.atoms = Append(atoms, id),
                     !.changed = [changed EXCEPT
                         !["atoms"] = TRUE,
                         !["residues"] = @ \/ Len(resseq) # Len(residues)],
                     !.coordinates = coordinates \o xyz]
        ELSE \* an atom of a later model (633-647)
             IF atomno + 1 > Len(atoms)
             THEN \* IndexError; the PDBError message reads atom.residue.name
                  \* of the new atom, whose residue is None
                  [base EXCEPT !.err = "AttributeError"]
             ELSE LET orig == heap[atoms[atomno + 1]]
                  IN  IF \/ residues[orig.residue].name # Strip(l.resname)
                         \/ orig.name # Strip(l.atname)
                      THEN [base EXCEPT !.err = "PDBError"]
                      ELSE [base EXCEPT
                               !.heap = Append(heap, atom),
                               !.last_atom = id,
                               !.coordinates = coordinates \o xyz]

(***************************************************************************)
(* read_PDB: the state at the head of the loop (lines 509-525).            *)
(***************************************************************************)
\* struct = Structure() and the locals of lines 516-525
InitLocals ==
    /\ changed = NewChanged /\ atoms = <<>> /\ residues = <<>>
    /\ lists = NewLists /\ registered = {} /\ ndelete = <<>>
    /\ pruned = {}
    /\ box = NoBox /\ pdbxyz = <<>>
    /\ heap = <<BlankAtom>>
    /\ fileobj = <<>> /\ line = NoLine
    /\ modelno = 1 /\ atomno = 0
    /\ coordinates = <<>> /\ all_coordinates = <<>>
    /\ last_atom = 1 /\ last_resid = 1
    /\ res_hex = FALSE /\ atom_hex = FALSE
    /\ op = "none" /\ ret = FALSE
    /\ nmut = 0

\* the attributes lines 511-515 give the new structure
InitAttrs ==
    {"experimental", "journal", "authors", "keywords", "doi", "pmid",
     "journal_authors", "volume_page", "title", "year", "related_entries"}

\* the handle and the metadata at the head of the loop; own tells whether
\* read_PDB opened the file itself (lines 493-507)
StartMeta(own) ==
    [own_handle |-> own, handle |-> "open", stage |-> "loop",
     attrs |-> InitAttrs, keywords |-> <<>>, warnings |-> 0]

\* lines 493-507: the input is a file name or an object that yields lines;
\* gzip and bz2 are None when their import failed (lines 8-18)
Open(input, gzip, bz2) ==
    IF input.kind = "path"
    THEN IF \/ input.ext = ".gz" /\ ~gzip
            \/ input.ext = ".bz2" /\ ~bz2
         THEN [pc |-> "raised", err |-> "ImportError",
               meta |-> [StartMeta(TRUE) EXCEPT !.handle = "none",
                                                !.stage = "opening",
                                                !.attrs = {}]]
         ELSE [pc |-> "reading", err |-> "none", meta |-> StartMeta(TRUE)]
    ELSE [pc |-> "reading", err |-> "none", meta |-> StartMeta(FALSE)]

\* what read_PDB may be called with
Inputs ==
    {[kind |-> "path", ext |-> e] : e \in {".pdb", ".gz", ".bz2"}}
    \cup {[kind |-> "file", ext |-> ""]}

\* read_PDB(filename) for any input, at the head of the loop or failed
InitOpen ==
    /\ InitLocals
    /\ \E input \in Inputs : \E gzip, bz2 \in BOOLEAN :
           LET o == Open(input, gzip, bz2)
           IN  pc = o.pc /\ err = o.err /\ meta = o.meta

\* read_PDB(filename) with the name of a plain file, at the head of the loop
InitParse ==
    /\ InitLocals
    /\ pc = "reading" /\ err = "none"
    /\ meta = StartMeta(TRUE)

\* `for line in fileobj`: the next line is l
Fetch(l, maxLines) ==
    /\ pc = "reading"
    /\ Len(fileobj) < maxLines
    /\ line' = l
    /\ fileobj' = Append(fileobj, l)

\* `finally: if own_handle: fileobj.close()` (713-715)
Finally(m) ==
    [m EXCEPT !.handle = IF m.own_handle THEN "closed" ELSE @]

\* C13 mutant: an exception leaves the loop without closing the file
Raise_noclose(e) == pc' = "raised" /\ err' = e /\ UNCHANGED meta

\* an exception raised in the loop leaves read_PDB through the finally
\* clause: nothing is returned
Raise(e) == pc' = "raised" /\ err' = e /\ meta' = Finally(meta)

\* the loop goes on to the next line
Continue == UNCHANGED <<pc, err, meta>>

\* rec == 'ATOM  ' or rec == 'HETATM'
ReadATOM(l, maxLines) ==
    /\ l.rec \in {"ATOM  ", "HETATM"}
    /\ Fetch(l, maxLines)
    /\ atomno' = atomno + 1
    /\ LET r == AtomRecord(l)
       IN  IF r.err # "none"
           THEN /\ Raise(r.err)
                /\ UNCHANGED <<heap, atoms, residues, changed, coordinates,
                               last_atom, last_resid, res_hex, atom_hex>>
           ELSE /\ heap' = r.heap /\ atoms' = r.atoms
                /\ residues' = r.residues /\ changed' = r.changed
                /\ coordinates' = r.coordinates /\ last_atom' = r.last_atom
                /\ last_resid' = r.last_resid /\ res_hex' = r.res_hex
                /\ atom_hex' = r.atom_hex
                /\ Continue
    /\ UNCHANGED <<lists, registered, ndelete, pruned, box, pdbxyz, modelno,
                   all_coordinates, op, ret, nmut>>

\* rec.strip() == 'TER'
ReadTER(l, maxLines) ==
    /\ l.rec = "TER   "
    /\ Fetch(l, maxLines)
    /\ IF modelno # 1
       THEN UNCHANGED residues /\ Continue
       ELSE IF heap[last_atom].residue = None
       THEN Raise("AttributeError") /\ UNCHANGED residues
       ELSE /\ residues' = [residues EXCEPT
                               ![heap[last_atom].residue].ter = TRUE]
            /\ Continue
    /\ UNCHANGED <<changed, atoms, lists, registered, ndelete, pruned, box, pdbxyz,
                   heap, modelno, atomno, coordinates, all_coordinates,
                   last_atom, last_resid, res_hex, atom_hex, op, ret, nmut>>

\* rec == 'ENDMDL'
ReadENDMDL(l, maxLines) ==
    /\ l.rec = "ENDMDL"
    /\ Fetch(l, maxLines)
    /\ IF Len(atoms) = 0
       THEN /\ Raise("PDBError")
            /\ UNCHANGED <<modelno, atomno, coordinates, all_coordinates>>
       ELSE IF ~FrameComplete(Len(atoms), Len(coordinates))
       THEN /\ Raise("ValueError")
            /\ modelno' = modelno + 1
            /\ UNCHANGED <<atomno, coordinates, all_coordinates>>
       ELSE /\ modelno' = modelno + 1
            /\ all_coordinates' = Append(all_coordinates, coordinates)
            /\ atomno' = 0
            /\ coordinates' = <<>>
            /\ Continue
    /\ UNCHANGED <<structVars, last_atom, last_resid, res_hex, atom_hex,
                   op, ret, nmut>>

\* rec == 'MODEL '
ReadMODEL(l, maxLines) ==
    /\ l.rec = "MODEL "
    /\ Fetch(l, maxLines)
    /\ IF modelno = 1 /\ Len(atoms) = 0
       THEN UNCHANGED <<modelno, atomno, coordinates, all_coordinates>>
            /\ Continue
       ELSE IF Len(coordinates) > 0
               /\ ~FrameComplete(Len(atoms), Len(coordinates))
       THEN /\ Raise("ValueError")
            /\ UNCHANGED <<modelno, atomno, coordinates, all_coordinates>>
       ELSE /\ all_coordinates' = IF Len(coordinates) > 0
                                  THEN Append(all_coordinates, coordinates)
                                  ELSE all_coordinates
            \* warnings.warn('MODEL not explicitly ended', PDBWarning)
            /\ meta' = IF Len(coordinates) > 0
                       THEN [meta EXCEPT !.warnings = @ + 1]
                       ELSE meta
            /\ coordinates' = <<>>
            /\ modelno' = modelno + 1
            /\ atomno' = 0
            /\ UNCHANGED <<pc, err>>
    /\ UNCHANGED <<structVars, last_atom, last_resid, res_hex, atom_hex,
                   op, ret, nmut>>

\* rec == 'CRYST1': l.cell holds the text of the six number columns
ReadCRYST1(l, maxLines) ==
    /\ l.rec = "CRYST1"
    /\ Fetch(l, maxLines)
    /\ IF \E i \in 1..3 : ~IsFloat(l.cell[i])
       THEN Raise("ValueError") /\ UNCHANGED box
       ELSE /\ box' = IF \A i \in 4..6 : IsFloat(l.cell[i])
                      THEN [i \in 1..6 |-> FloatVal(l.cell[i])]
                      ELSE [i \in 1..6 |-> IF i <= 3 THEN FloatVal(l.cell[i])
                                           ELSE 90000]
            /\ Continue
    /\ UNCHANGED <<changed, atoms, residues, lists, registered, ndelete, pruned,
                   pdbxyz, heap, modelno, atomno, coordinates,
                   all_coordinates, last_atom, last_resid, res_hex, atom_hex,
                   op, ret, nmut>>

\* rec == 'JRNL  ': only the REF part with blank continuation columns adds
\* attributes (volume, page); the other parts assign attributes that exist
ReadJRNL(l, maxLines) ==
    /\ l.rec = "JRNL  "
    /\ Fetch(l, maxLines)
    /\ meta' = IF l.part = "REF " /\ Strip(l.cont) = ""
               THEN [meta EXCEPT !.attrs = @ \cup {"volume", "page"}]
               ELSE meta
    /\ UNCHANGED <<structVars, modelno, atomno, coordinates, all_coordinates,
                   last_atom, last_resid, res_hex, atom_hex, controlVars>>

\* rec == 'KEYWDS': struct.keywords += '%s,' % line[10:]
ReadKEYWDS(l, maxLines) ==
    /\ l.rec = "KEYWDS"
    /\ Fetch(l, maxLines)
    /\ meta' = [meta EXCEPT !.keywords = @ \o l.text \o <<",">>]
    /\ UNCHANGED <<structVars, modelno, atomno, coordinates, all_coordinates,
                   last_atom, last_resid, res_hex, atom_hex, controlVars>>

\* str.split(','): the pieces between the commas, empty ones included
SplitComma(s) ==
    LET commas == {i \in 1..Len(s) : s[i] = ","}
        cuts   == {0} \cup commas \cup {Len(s) + 1}
        starts == {c \in cuts : c <= Len(s)}
        NextCut(c) == CHOOSE d \in cuts : d > c /\ \A e \in cuts : e > c => d <= e
        RECURSIVE From(_)
        From(c) == <<SubSeq(s, c + 1, NextCut(c) - 1)>>
                   \o (IF NextCut(c) = Len(s) + 1 THEN <<>>
                       ELSE From(NextCut(c)))
    IN  From(0)

\* the characters str.strip() removes
Whitespace == {" ", "\n"}

\* str.strip() of a sequence of characters
StripChars(s) ==
    LET keep == {i \in 1..Len(s) : s[i] \notin Whitespace}
    IN  IF keep = {} THEN <<>>
        ELSE SubSeq(s, CHOOSE i \in keep : \A j \in keep : i <= j,
                       CHOOSE i \in keep : \A j \in keep : i >= j)

\* C17 mutant: the empty tokens are kept
PostKeywords_keepempty(text) ==
    LET pieces == SplitComma(text)
    IN  [i \in 1..Len(pieces) |-> StripChars(pieces[i])]

\* [s.strip() for s in struct.keywords.split(',') if s.strip()] (718-719)
PostKeywords(text) ==
    LET pieces == SplitComma(text)
        kept   == SelectSeq(pieces, LAMBDA t : StripChars(t) # <<>>)
    IN  [i \in 1..Len(kept) |-> StripChars(kept[i])]

\* the end of the file: lines 713-729
EndOfFile ==
    /\ pc = "reading"
    /\ changed' = unchange(changed)
    /\ IF Len(coordinates) > 0
          /\ ~FrameComplete(Len(atoms), Len(coordinates))
       THEN /\ pc' = "raised" /\ err' = "ValueError"
            /\ meta' = [Finally(meta) EXCEPT
                           !.stage = "finalization",
                           !.keywords = PostKeywords(@)]
            /\ UNCHANGED <<all_coordinates, pdbxyz, op>>
       ELSE /\ all_coordinates' = IF Len(coordinates) > 0
                                  THEN Append(all_coordinates, coordinates)
                                  ELSE all_coordinates
            /\ pdbxyz' = all_coordinates'
            /\ pc' = "returned"
            /\ op' = "read_PDB"
            /\ meta' = [Finally(meta) EXCEPT
                           !.stage = "done",
                           !.keywords = PostKeywords(@),
                           !.attrs = @ \cup {"pdbxyz"}]
            /\ UNCHANGED err
    /\ UNCHANGED <<atoms, residues, lists, registered, ndelete, pruned, box, heap,
                   fileobj, line, modelno, atomno, coordinates, last_atom,
                   last_resid, res_hex, atom_hex, ret, nmut>>

(***************************************************************************)
(* The caller's operations on a structure it holds.                        *)
(***************************************************************************)
Holding == pc = "returned"

\* the two atoms of the structure whose terms are followed: struct.atoms[0]
\* and struct.atoms[1] as read_PDB created them (heap[1] is Atom())
A1 == 2
A2 == 3

\* C25 mutant: an is_changed() that clears the flags it has read
IsChanged_clears ==
    /\ Holding
    /\ UNCHANGED meta
    /\ ret' = is_changed
    /\ op' = "is_changed"
    /\ changed' = unchange(changed)
    /\ UNCHANGED <<atoms, residues, lists, registered, ndelete, pruned, box,
                   pdbxyz, heap, parserVars, pc, err, nmut>>

\* struct.is_changed()
IsChanged ==
    /\ Holding
    /\ UNCHANGED meta
    /\ ret' = is_changed
    /\ op' = "is_changed"
    /\ UNCHANGED <<structVars, parserVars, pc, err, nmut>>

\* struct.unchange()
Unchange ==
    /\ Holding
    /\ UNCHANGED meta
    /\ changed' = unchange(changed)
    /\ op' = "unchange"
    /\ UNCHANGED <<atoms, residues, lists, registered, ndelete, pruned, box,
                   pdbxyz,
                   heap, parserVars, pc, err, ret, nmut>>

\* struct.<n>.changed = True, as any mutation of the sequence n leaves it
SetChanged(n) ==
    /\ Holding
    /\ UNCHANGED meta
    /\ nmut < MaxMutations
    /\ changed' = [changed EXCEPT ![n] = TRUE]
    /\ nmut' = nmut + 1
    /\ op' = "mutate"
    /\ UNCHANGED <<atoms, residues, lists, registered, ndelete, pruned, box,
                   pdbxyz,
                   heap, parserVars, pc, err, ret>>

\* struct.<kind>.append(term), the term a new object with the given slots;
\* a term of a kind with delete() joins the membership lists of its atoms
AddTerm(kind, slots) ==
    /\ Holding
    /\ UNCHANGED meta
    /\ Len(ndelete) < MaxTerms
    /\ LET id == Len(ndelete) + 1
       IN  /\ lists' = [lists EXCEPT
                           ![kind] = Append(@, [id |-> id, slots |-> slots])]
           /\ registered' =
                  IF kind \in DeleteKinds
                  THEN registered \cup
                       {<<slots[j], id>> : j \in {k \in 1..Len(slots) :
                                                     slots[k] # None}}
                  ELSE registered
    /\ ndelete' = Append(ndelete, 0)
    /\ pruned' = {}
    /\ changed' = [changed EXCEPT ![kind] = TRUE]
    /\ nmut' = nmut + 1
    /\ op' = "mutate"
    /\ UNCHANGED <<atoms, residues, box, pdbxyz, heap, parserVars, pc, err,
                   ret>>

\* del struct.atoms[i]: the atom's idx becomes -1 and it leaves its residue
RemoveAtom(i) ==
    /\ Holding
    /\ UNCHANGED meta
    /\ i \in 1..Len(atoms)
    /\ Cardinality({A1, A2} \ {atoms[j] : j \in 1..Len(atoms)}) < MaxRemovals
    /\ atoms' = DelAt(atoms, i)
    /\ residues' = [r \in 1..Len(residues) |->
                       [residues[r] EXCEPT
                           !.atoms = SelectSeq(@, LAMBDA a : a # atoms[i])]]
    /\ changed' = [changed EXCEPT !["atoms"] = TRUE]
    /\ nmut' = nmut + 1
    /\ op' = "mutate"
    /\ pruned' = {}
    /\ UNCHANGED <<lists, registered, ndelete, box, pdbxyz, heap, parserVars,
                   pc, err, ret>>

\* struct.prune_empty_terms(); op tells whether it completed
Prune ==
    /\ Holding
    /\ UNCHANGED meta
    /\ LET st == prune_empty_terms(
                     [lists |-> lists, registered |-> registered,
                      ndelete |-> ndelete, changed |-> changed,
                      raised |-> FALSE, atoms |-> atoms])
       IN  /\ lists' = st.lists
           /\ registered' = st.registered
           /\ ndelete' = st.ndelete
           /\ pruned' =
                  {[kind |-> k, id |-> lists[k][i].id,
                    slots |-> lists[k][i].slots] :
                       <<k, i>> \in {x \in TermKindSet \X (1..MaxTerms) :
                           /\ x[2] <= Len(lists[x[1]])
                           /\ \A j \in 1..Len(st.lists[x[1]]) :
                                  st.lists[x[1]][j].id
                                      # lists[x[1]][x[2]].id}}
           /\ changed' = st.changed
           /\ op' = IF st.raised THEN "prune_raised" ELSE "prune"
           /\ nmut' = IF st.lists # lists THEN nmut + 1 ELSE nmut
    /\ UNCHANGED <<atoms, residues, box, pdbxyz, heap, parserVars, pc, err,
                   ret>>

(***************************************************************************)
(* The lines the specifications read.                                      *)
(***************************************************************************)
XYZ1 == <<"1.000", "2.000", "3.000">>
XYZ2 == <<"4.000", "5.000", "6.000">>
XYZ3 == <<"-1.500", "0.500", "1.000">>

LineN    == AtomLine(" N  ", " ", "ALA", "A", "   1", XYZ1)
LineCA   == AtomLine(" CA ", " ", "ALA", "A", "   1", XYZ2)
LineCAB  == AtomLine(" CA ", "B", "ALA", "A", "   1", XYZ3)
LineNGLY == AtomLine(" N  ", " ", "GLY", "A", "   1", XYZ1)
LineMODEL  == RecLine("MODEL ")
LineENDMDL == RecLine("ENDMDL")
LineTER    == RecLine("TER   ")
LineCRYST1 ==
    [RecLine("CRYST1") EXCEPT
        !.cell = <<"1.000", "2.000", "3.000", "", "", "">>]

AtomRecs == {"ATOM  ", "HETATM"}

\* files of several models
ModelLines == {LineN, LineCA, LineCAB, LineNGLY, LineMODEL, LineENDMDL}

\* files of several models with chain ends
TopoLines == {LineCA, LineCAB, LineN, LineTER, LineMODEL, LineENDMDL}

\* files whose atom serial numbers pass 99999
SerialLines ==
    {[l EXCEPT !.atnum = f] :
         l \in {LineN, LineCA},
         f \in {"    1", "   10", "99999", "186A0", "*****"}}

\* files with alternate locations
AltlocLines ==
    {AtomLine(" CA ", "A", "ALA", "A", "   1", XYZ1),
     AtomLine(" CA ", "B", "ALA", "A", "   1", XYZ2),
     AtomLine(" CA ", "C", "ALA", "A", "   1", XYZ3),
     AtomLine(" CB ", " ", "ALA", "A", "   1", XYZ1),
     AtomLine(" CA ", "A", "ALA", "A", "   2", XYZ2),
     AtomLine(" CA ", "B", "ALA", " ", "   1", XYZ3),
     AtomLine(" CA ", "A", "GLY", "A", "   1", XYZ3)}

\* files whose residue numbers pass 9999
HexLines ==
    {AtomLine(" CA ", " ", "ALA", "A", f, XYZ1) :
         f \in {"   1", "  10", "9999", "2710", "2711", "****"}}
    \cup {AtomLine(" N  ", " ", "ALA", "A", "****", XYZ2),
          AtomLine(" CA ", " ", "ALA", "B", "   1", XYZ2)}

\* the files after whose parse the caller's flag operations are followed
FlagLines == {LineN, LineCA, LineCRYST1}

\* atom records by their atom-name and element columns
ElemLine(atname, elem) ==
    [AtomLine(atname, " ", "ALA", "A", "   1", XYZ1) EXCEPT !.elem = elem]

\* files whose element and atom-name columns are known, unknown or blank
ElemLines ==
    {ElemLine(n, e) : n \in {" CA ", " X  ", "    ", "Q   ", "ZN  "},
                      e \in {"  ", " C", "XX", "FE"}}

\* a JRNL REF line and its continuation (columns 17-18 not blank)
LineJRNLREF  == [RecLine("JRNL  ") EXCEPT !.part = "REF ", !.cont = "  "]
LineJRNLREF2 == [RecLine("JRNL  ") EXCEPT !.part = "REF ", !.cont = " 2"]

\* a KEYWDS line; text is line[10:], the newline included
KeywdsLine(text) == [RecLine("KEYWDS") EXCEPT !.text = text]

\* files with models and journal records, from any kind of input
MetaLines ==
    {LineN, LineCA, LineMODEL, LineENDMDL, LineJRNLREF, LineJRNLREF2}

\* files with keywords: "A, B,", "C", " ," and " A B "
KeywordLines ==
    {KeywdsLine(<<"A", ",", " ", "B", ",", "\n">>),
     KeywdsLine(<<"C", "\n">>),
     KeywdsLine(<<" ", ",", "\n">>),
     KeywdsLine(<<" ", "A", " ", "B", " ", "\n">>),
     LineN}

(***************************************************************************)
(* Specifications.                                                         *)
(***************************************************************************)
\* read_PDB on any kind of input: the handle, the errors, the attributes
NextMeta ==
    \/ \E l \in MetaLines :
           \/ ReadATOM(l, MaxLinesMeta)
           \/ ReadMODEL(l, MaxLinesMeta)
           \/ ReadENDMDL(l, MaxLinesMeta)
           \/ ReadJRNL(l, MaxLinesMeta)
    \/ EndOfFile
SpecMeta == InitOpen /\ [][NextMeta]_vars

\* read_PDB on atom records with all kinds of element columns
NextElem ==
    \/ \E l \in ElemLines : ReadATOM(l, MaxLinesElem)
    \/ EndOfFile
SpecElem == InitParse /\ [][NextElem]_vars

\* read_PDB on files with KEYWDS records
NextKeywords ==
    \/ \E l \in KeywordLines :
           \/ ReadATOM(l, MaxLinesKeywords)
           \/ ReadKEYWDS(l, MaxLinesKeywords)
    \/ EndOfFile
SpecKeywords == InitParse /\ [][NextKeywords]_vars

\* read_PDB on files of several models
NextModels ==
    \/ \E l \in ModelLines :
           \/ ReadATOM(l, MaxLinesModels)
           \/ ReadMODEL(l, MaxLinesModels)
           \/ ReadENDMDL(l, MaxLinesModels)
    \/ EndOfFile
SpecModels == InitParse /\ [][NextModels]_vars

\* read_PDB on several models with TER records
NextTopo ==
    \/ \E l \in TopoLines :
           \/ ReadATOM(l, MaxLinesTopo)
           \/ ReadTER(l, MaxLinesTopo)
           \/ ReadMODEL(l, MaxLinesTopo)
           \/ ReadENDMDL(l, MaxLinesTopo)
    \/ EndOfFile
SpecTopo == InitParse /\ [][NextTopo]_vars

\* read_PDB on one model with alternate locations
NextAltloc ==
    \/ \E l \in AltlocLines : ReadATOM(l, MaxLinesAltloc)
    \/ EndOfFile
SpecAltloc == InitParse /\ [][NextAltloc]_vars

\* read_PDB on residue numbers in decimal and hexadecimal
NextHex ==
    \/ \E l \in HexLines : ReadATOM(l, MaxLinesHex)
    \/ EndOfFile
SpecHex == InitParse /\ [][NextHex]_vars

\* read_PDB on atom serial numbers in decimal and hexadecimal
NextSerial ==
    \/ \E l \in SerialLines : ReadATOM(l, MaxLinesSerial)
    \/ EndOfFile
SpecSerial == InitParse /\ [][NextSerial]_vars

\* read_PDB, then the caller's use of the change flags
NextFlags ==
    \/ \E l \in FlagLines :
           \/ ReadATOM(l, MaxLinesFlags)
           \/ ReadCRYST1(l, MaxLinesFlags)
    \/ EndOfFile
    \/ IsChanged
    \/ Unchange
    \/ \E n \in Tracked : SetChanged(n)
SpecFlags == InitParse /\ [][NextFlags]_vars

\* the structure read_PDB returns for the file <<LineN, LineCA>>
InitStruct ==
    /\ changed = NewChanged
    /\ atoms = <<A1, A2>>
    /\ residues = <<[NewResidue("ALA", 1, "A", " ") EXCEPT
                        !.atoms = <<A1, A2>>]>>
    /\ lists = NewLists /\ registered = {} /\ ndelete = <<>>
    /\ pruned = {}
    /\ box = NoBox
    /\ pdbxyz = <<<<1000, 2000, 3000, 4000, 5000, 6000>>>>
    /\ heap = <<BlankAtom,
                [NewAtom(" N  ", " ", 7, 14007, 0, 1000, 500) EXCEPT
                    !.xx = 1000, !.xy = 2000, !.xz = 3000, !.residue = 1],
                [NewAtom(" CA ", " ", 6, 12011, 0, 1000, 500) EXCEPT
                    !.xx = 4000, !.xy = 5000, !.xz = 6000, !.residue = 1]>>
    /\ fileobj = <<LineN, LineCA>> /\ line = LineCA
    /\ modelno = 1 /\ atomno = 2
    /\ coordinates = <<1000, 2000, 3000, 4000, 5000, 6000>>
    /\ all_coordinates = pdbxyz
    /\ last_atom = A2 /\ last_resid = 1
    /\ res_hex = FALSE /\ atom_hex = FALSE
    /\ pc = "returned" /\ err = "none" /\ op = "read_PDB" /\ ret = FALSE
    /\ nmut = 0
    /\ meta = [own_handle |-> TRUE, handle |-> "closed", stage |-> "done",
               attrs |-> InitAttrs \cup {"pdbxyz"}, keywords |-> <<>>,
               warnings |-> 0]

\* the terms the caller appends: the first slot free, the other slots alike
SlotChoices(kind) ==
    LET V == {None, A1, A2}
    IN  {[j \in 1..Arity(kind) |-> IF j = 1 THEN a ELSE b] : a, b \in V}

\* the caller's construction and pruning of topology terms
NextStruct ==
    \/ \E kind \in TermKindSet : \E slots \in SlotChoices(kind) :
           AddTerm(kind, slots)
    \/ \E i \in 1..2 : RemoveAtom(i)
    \/ Prune
SpecStruct == InitStruct /\ [][NextStruct]_vars

\* the caller's edits, prunes and is_changed() calls, without unchange()
NextNoReset ==
    \/ \E kind \in TermKindSet : \E slots \in SlotChoices(kind) :
           AddTerm(kind, slots)
    \/ \E i \in 1..2 : RemoveAtom(i)
    \/ Prune
    \/ IsChanged
SpecNoReset == InitStruct /\ [][NextNoReset]_vars

(***************************************************************************)
(* Properties of the change flags (SpecFlags).                             *)
(***************************************************************************)
AnyChanged == \E n \in Tracked : changed[n]

\* C1: is_changed() returns true exactly when some tracked sequence (atoms,
\* residues, a term sequence, acceptors/donors/groups, a type sequence) has
\* its changed flag set.
C1_IsChangedIffAnyFlag ==
    (Holding /\ op = "is_changed") => (ret <=> AnyChanged)

\* C10: from the return of read_PDB until the caller's first mutation of a
\* tracked sequence, is_changed() is false, whatever the file held and
\* however often is_changed() is called.
C10_UnchangedAfterRead ==
    (pc = "returned" /\ nmut = 0) =>
        /\ ~is_changed
        /\ op = "is_changed" => ret = FALSE

\* C10 witness: a returned structure with atoms, residues and a box, asked
\* is_changed() before any mutation
C10_Witness ==
    /\ pc = "returned" /\ nmut = 0 /\ op = "is_changed"
    /\ Len(atoms) > 0 /\ Len(residues) > 0 /\ box # NoBox

(***************************************************************************)
(* Properties of prune_empty_terms (SpecStruct).                           *)
(***************************************************************************)
\* C2: when prune_empty_terms() has completed, no term left in any of the 14
\* term sequences references an atom with idx -1, and none has all of its
\* slots unset.
C2_PrunedTermsAreLive ==
    op = "prune" =>
        \A k \in TermKindSet : \A i \in 1..Len(lists[k]) :
            LET slots == lists[k][i].slots
            IN  /\ ~AllNone(slots)
                /\ \A j \in 1..Len(slots) :
                       slots[j] # None => Idx(slots[j], atoms) # -1

\* C2 witness: a completed prune that removed a dangling term through its
\* delete() and left another term in place
C2_Witness ==
    /\ op = "prune"
    /\ \E t \in 1..Len(ndelete) : ndelete[t] = 1
    /\ \E k \in TermKindSet : Len(lists[k]) = 1
    /\ Len(atoms) = 1

(***************************************************************************)
(* Properties of read_PDB on files of several models (SpecModels).         *)
(***************************************************************************)
IsAtomLine(l) == l.rec \in AtomRecs

\* the records that tell one site from another
Ident(l) == <<Strip(l.atname), l.resname, l.resid, Strip(l.chain)>>

\* f starts with MODEL, n atom records, ENDMDL, and goes on repeating them
Repeats(f, n) ==
    /\ n >= 1 /\ Len(f) > n + 2
    /\ f[1].rec = "MODEL " /\ f[n + 2].rec = "ENDMDL"
    /\ \A j \in 2..(n + 1) : IsAtomLine(f[j])
    /\ \A i \in (n + 3)..Len(f) : f[i] = f[i - (n + 2)]

\* C3: a file of M >= 2 models, each MODEL .. ENDMDL around the records of
\* model 1, is read without error; the atoms are those of model 1 and
\* pdbxyz holds M frames of length 3 x len(atoms).
C3_WellFormedMultiModel ==
    \A n \in 1..Len(fileobj) :
        Repeats(fileobj, n) =>
            /\ pc # "raised"
            /\ (pc = "returned" /\ Len(fileobj) % (n + 2) = 0) =>
                   /\ Len(atoms) >= 1
                   /\ \A i \in 1..Len(atoms) : atoms[i] <= n + 1
                   /\ Len(pdbxyz) = Len(fileobj) \div (n + 2)
                   /\ \A m \in 1..Len(pdbxyz) :
                          Len(pdbxyz[m]) = 3 * Len(atoms)

\* the last line read is an atom record that differs from the atom of
\* model 1 at its running position, or has no atom there
RecordDiffers ==
    \/ atomno > Len(atoms)
    \/ /\ atomno \in 1..Len(atoms)
       /\ \/ heap[atoms[atomno]].name # Strip(line.atname)
          \/ residues[heap[atoms[atomno]].residue].name # Strip(line.resname)

\* C4: in a model after the first, an atom record whose atom name or residue
\* name differs from the atom of model 1 at the same running position, or
\* that has no atom at that position, ends the parse with PDBError.
C4_LaterModelRecordsChecked ==
    (IsAtomLine(line) /\ modelno > 1 /\ RecordDiffers) =>
        (pc = "raised" /\ err = "PDBError")

\* f is one model: an optional MODEL, n >= 1 atom records of which no two in
\* a row are the same site, an optional ENDMDL
SingleModel(f, lead, trail) ==
    /\ Len(f) - lead - trail >= 1
    /\ lead = 1 => f[1].rec = "MODEL "
    /\ trail = 1 => f[Len(f)].rec = "ENDMDL"
    /\ \A i \in (lead + 1)..(Len(f) - trail) : IsAtomLine(f[i])
    /\ \A i \in (lead + 2)..(Len(f) - trail) : Ident(f[i]) # Ident(f[i - 1])

\* C6: a file of one model with N >= 1 atom records and no alternate
\* locations (no record repeats the site of the record before it), with or
\* without a leading MODEL and a trailing ENDMDL, is read without error into
\* N atoms and one frame of length 3N holding the x, y, z of the records.
C6_RoundTrip ==
    \A lead, trail \in {0, 1} :
        SingleModel(fileobj, lead, trail) =>
            /\ pc # "raised"
            /\ pc = "returned" =>
                   LET N == Len(fileobj) - lead - trail
                   IN  /\ Len(atoms) = N
                       /\ Len(pdbxyz) = 1
                       /\ Len(pdbxyz[1]) = 3 * N
                       /\ \A i \in 1..N :
                              LET l == fileobj[lead + i]
                                  a == heap[atoms[i]]
                              IN  /\ pdbxyz[1][3 * i - 2] = FloatVal(l.x)
                                  /\ pdbxyz[1][3 * i - 1] = FloatVal(l.y)
                                  /\ pdbxyz[1][3 * i] = FloatVal(l.z)
                                  /\ a.xx = FloatVal(l.x)
                                  /\ a.xy = FloatVal(l.y)
                                  /\ a.xz = FloatVal(l.z)

\* C6 witness: MODEL, three atom records, ENDMDL, read and returned
C6_Witness ==
    /\ pc = "returned"
    /\ Len(fileobj) = 5
    /\ SingleModel(fileobj, 1, 1)
    /\ Len(atoms) = 3

\* C9: every frame of pdbxyz of a returned structure has length
\* 3 x len(atoms).
C9_FramesMatchAtoms ==
    pc = "returned" =>
        \A m \in 1..Len(pdbxyz) : Len(pdbxyz[m]) = 3 * Len(atoms)

\* C9 witness: two frames returned from a file with an alternate location
\* whose last model is still open at the end of the file
C9_Witness ==
    /\ pc = "returned"
    /\ Len(pdbxyz) = 2
    /\ \E i \in 1..Len(atoms) : heap[atoms[i]].other_locations # {}
    /\ IsAtomLine(fileobj[Len(fileobj)])
    /\ \A i \in 1..Len(fileobj) : fileobj[i].rec # "MODEL "

(***************************************************************************)
(* Properties of alternate locations (SpecAltloc: atom records only).      *)
(***************************************************************************)
\* the first record of the run of same-site records that record i is in
RunHead(f, i) ==
    CHOOSE j \in 1..i :
        /\ j = 1 \/ Ident(f[j]) # Ident(f[j - 1])
        /\ \A k \in (j + 1)..i : Ident(f[k]) = Ident(f[k - 1])

RunOf(f, j) == {i \in j..Len(f) : RunHead(f, i) = j}

\* the atom object made from the record at position i of a file of atom
\* records (the blank Atom() is object 1)
ObjOf(i) == i + 1

ReadsMODEL == fileobj' # fileobj /\ line'.rec = "MODEL "

\* f is M >= 1 models of n >= 1 atom records, each opened by MODEL and none
\* closed by ENDMDL, the later ones repeating the records of the first
OpenModels(f, n) ==
    /\ n >= 1 /\ Len(f) >= n + 1 /\ Len(f) % (n + 1) = 0
    /\ f[1].rec = "MODEL "
    /\ \A j \in 2..(n + 1) : IsAtomLine(f[j])
    /\ \A i \in (n + 2)..Len(f) : f[i] = f[i - (n + 1)]

\* C23: a MODEL record read while the coordinate buffer is not empty puts
\* the buffer into the frames as one frame after the length check, gives
\* one warning and the parse goes on; so a file of M models opened by MODEL
\* and never closed by ENDMDL returns M frames; a MODEL record right after
\* an ENDMDL gives no warning and adds no frame.
C23_ModelFlushesOpenModel ==
    /\ [][(ReadsMODEL /\ Len(coordinates) > 0) =>
             IF FrameComplete(Len(atoms), Len(coordinates))
             THEN /\ all_coordinates' = Append(all_coordinates, coordinates)
                  /\ coordinates' = <<>>
                  /\ meta'.warnings = meta.warnings + 1
                  /\ pc' = "reading"
             ELSE pc' = "raised"]_vars
    /\ [][(ReadsMODEL /\ line.rec = "ENDMDL") =>
             /\ meta'.warnings = meta.warnings
             /\ all_coordinates' = all_coordinates]_vars
    /\ [](\A n \in 1..Len(fileobj) :
              (pc = "returned" /\ OpenModels(fileobj, n)) =>
                  Len(pdbxyz) = Len(fileobj) \div (n + 1))

(***************************************************************************)
(* Properties of the records of later models (SpecTopo).                   *)
(***************************************************************************)
\* this step reads an ATOM, HETATM or TER record
ReadsTopologyRecord ==
    /\ fileobj' # fileobj
    /\ line'.rec \in {"ATOM  ", "HETATM", "TER   "}

\* C22: once the model counter is above 1, no ATOM, HETATM or TER record
\* changes the topology model 1 defined: the atom sequence, the residue
\* sequence with the chain-end marks and the alternate locations of the
\* atoms of model 1 stay as they are; such a record only appends
\* coordinates to the current buffer.
C22_LaterModelsKeepTopology ==
    [][(modelno > 1 /\ ReadsTopologyRecord) =>
          /\ atoms' = atoms
          /\ residues' = residues
          /\ \A k \in 1..Len(atoms) :
                 heap'[atoms[k]].other_locations
                     = heap[atoms[k]].other_locations
          /\ all_coordinates' = all_coordinates
          /\ Len(coordinates') >= Len(coordinates)
          /\ SubSeq(coordinates', 1, Len(coordinates)) = coordinates]_vars

(***************************************************************************)
(* Properties of hexadecimal residue numbers (SpecHex: atom records only). *)
(***************************************************************************)
\* this step reads an atom record
ReadsRecord == fileobj' # fileobj /\ IsAtomLine(line')

\* C7: once residue numbering is in hex mode, every later residue-number
\* field of the parse is read as hexadecimal, whatever the residue number of
\* the record before it.
C7_HexModeAllFields ==
    [][(res_hex /\ ReadsRecord /\ pc' = "reading" /\ IsHex(line'.resid))
          => last_resid' = HexVal(line'.resid)]_vars

\* C7 amended: hex mode, once on, is never switched off, and while it is on
\* a field that follows a residue number of 9999 or more is read as
\* hexadecimal, a field that follows a residue number below 9999 as decimal.
C7_HexModeAfter9999 ==
    [][res_hex =>
          /\ res_hex'
          /\ (ReadsRecord /\ pc' = "reading") =>
                 IF last_resid >= 9999
                 THEN IsHex(line'.resid) => last_resid' = HexVal(line'.resid)
                 ELSE /\ IsDec(line'.resid)
                      /\ last_resid' = DecVal(line'.resid)]_vars

\* C7 witness: hex mode entered, a field read as hexadecimal, numbering
\* restarted at 1 and the field "  10" then read as ten
C7_Witness ==
    /\ res_hex
    /\ Len(fileobj) = 5
    /\ fileobj[3].resid = "2711"
    /\ fileobj[4].resid = "   1"
    /\ line.resid = "  10"
    /\ last_resid = 10
    /\ pc = "reading"

\* C8: hex mode is entered only by a field that follows a residue number of
\* 9999 or more, is not "9999" and parses as hexadecimal 10000; "9999" right
\* after residue 9999 is decimal 9999 and leaves hex mode off; residue
\* numbers below 9999 never enter hex mode.
C8_HexModeEntry ==
    [][/\ (~res_hex /\ res_hex') =>
              /\ ReadsRecord
              /\ last_resid >= 9999
              /\ line'.resid # "9999"
              /\ IsHex(line'.resid)
              /\ HexVal(line'.resid) = 10000
       /\ (ReadsRecord /\ ~res_hex /\ last_resid = 9999
              /\ line'.resid = "9999") =>
              /\ pc' = "reading"
              /\ last_resid' = 9999
              /\ ~res_hex'
       /\ (ReadsRecord /\ last_resid < 9999 /\ ~res_hex) => ~res_hex'
      ]_vars

\* C8 witness: 9999, 9999 again, then 2710 switches hex mode on
C8_Witness ==
    /\ Len(fileobj) = 3
    /\ fileobj[1].resid = "9999"
    /\ fileobj[2].resid = "9999"
    /\ fileobj[3].resid = "2710"
    /\ res_hex
    /\ last_resid = 10000
    /\ pc = "reading"

\* the last residue created so far holds an atom with the name of the record
\* this step reads
LastResidueHasName ==
    /\ Len(residues) > 0
    /\ \E k \in 1..Len(residues[Len(residues)].atoms) :
           heap[residues[Len(residues)].atoms[k]].name = Strip(line'.atname)

\* C21: a residue-number field of exactly "****" never ends the parse and is
\* settled by the last residue created: last_resid + 1 if that residue
\* already holds an atom with the name of the record, last_resid otherwise,
\* whether or not hex mode was on before the record.
C21_StarsResolvedFromLastResidue ==
    [][(ReadsRecord /\ line'.resid = "****") =>
          /\ pc' = "reading"
          /\ last_resid' = IF LastResidueHasName THEN last_resid + 1
                           ELSE last_resid]_vars

(***************************************************************************)
(* Properties of hexadecimal atom serial numbers (SpecSerial).             *)
(***************************************************************************)
\* C24: hex mode of the atom serial numbers is entered by the first serial
\* field that fails to parse as decimal and parses as hexadecimal, and by
\* nothing else; once entered it is never left before the end of the file,
\* and every later serial field is read as hexadecimal: a field that is a
\* hexadecimal number gets its hexadecimal value, whether or not it would
\* also parse as decimal, and any other field ends the parse.
C24_SerialHexModeSticky ==
    [][/\ (~atom_hex /\ atom_hex') =>
              /\ ReadsRecord
              /\ ~IsDec(line'.atnum)
              /\ IsHex(line'.atnum)
       /\ (ReadsRecord /\ ~atom_hex /\ pc' = "reading") =>
              IF IsDec(line'.atnum)
              THEN /\ ~atom_hex'
                   /\ ParseAtnum(line'.atnum, atom_hex).atnum
                          = DecVal(line'.atnum)
              ELSE /\ atom_hex'
                   /\ ParseAtnum(line'.atnum, atom_hex).atnum
                          = HexVal(line'.atnum)
       /\ atom_hex => atom_hex'
       /\ (ReadsRecord /\ atom_hex) =>
              IF IsHex(line'.atnum)
              THEN /\ pc' = "reading"
                   /\ ParseAtnum(line'.atnum, atom_hex).atnum
                          = HexVal(line'.atnum)
              ELSE pc' = "raised" /\ err' = "ValueError"
      ]_vars

\* C24 witness: 186A0 switched hex mode on and the field "   10" after it
\* was read in hex mode
C24_Witness ==
    /\ Len(fileobj) = 3
    /\ fileobj[1].atnum = "99999"
    /\ fileobj[2].atnum = "186A0"
    /\ fileobj[3].atnum = "   10"
    /\ atom_hex
    /\ pc = "reading"

(***************************************************************************)
(* Properties of unchange (SpecFlags).                                     *)
(***************************************************************************)
\* C11: unchange() sets the changed flag of every tracked sequence to false,
\* so that is_changed() is false right after it, and changes nothing else:
\* the contents and order of every sequence and the box stay as they were.
C11_UnchangeClearsOnlyFlags ==
    [][op' = "unchange" =>
          /\ \A n \in Tracked : ~changed'[n]
          /\ ~is_changed'
          /\ UNCHANGED <<atoms, residues, lists, registered, box, pdbxyz,
                         heap>>]_vars

\* C11 witness: unchange() called on a structure with atoms and a box after
\* the caller's mutations
C11_Witness ==
    /\ op = "unchange"
    /\ nmut = MaxMutations
    /\ Len(atoms) > 0 /\ box # NoBox
    /\ \A n \in Tracked : ~changed[n]

(***************************************************************************)
(* Properties of the metadata, the handle and the errors (SpecMeta).       *)
(***************************************************************************)
\* the attributes the docstring of read_PDB promises, and pdbxyz
PromisedAttrs ==
    {"experimental", "journal", "authors", "keywords", "doi", "pmid",
     "journal_authors", "volume", "page", "title", "year",
     "related_entries", "pdbxyz"}

\* C12: every structure read_PDB returns, whatever records the input held
\* (none of them a JRNL REF record included), has the attributes
\* experimental, journal, authors, keywords, doi, pmid, journal_authors,
\* volume, page, title, year, related_entries and pdbxyz.
C12_MetadataDefined ==
    pc = "returned" => PromisedAttrs \subseteq meta.attrs

\* C13: a file that read_PDB opened itself is closed on every way out of
\* read_PDB: the return, an error raised while a line is processed, an error
\* raised in the finalization.
C13_OwnHandleClosed ==
    (pc \in {"returned", "raised"} /\ meta.own_handle
        /\ meta.handle # "none") => meta.handle = "closed"

\* C13 witness: read_PDB opened the file and left with an error raised in
\* the loop
C13_Witness ==
    /\ pc = "raised" /\ meta.stage = "loop"
    /\ meta.own_handle /\ meta.handle = "closed"
    /\ err = "PDBError"

\* C14: each fatal structural condition is reported as PDBError: a frame
\* whose length is not 3 x the atom count (found at ENDMDL, at a later
\* MODEL or in the finalization), an ENDMDL before any atom, an atom of a
\* later model that differs from the atom of model 1 at its position, and a
\* compressed file whose decompression module is missing.
C14_StructuralErrorsArePDBError ==
    pc = "raised" =>
        /\ meta.stage = "opening" => err = "PDBError"
        /\ meta.stage = "finalization" => err = "PDBError"
        /\ (meta.stage = "loop" /\ line.rec \in {"ENDMDL", "MODEL "})
               => err = "PDBError"
        /\ (meta.stage = "loop" /\ IsAtomLine(line) /\ modelno > 1
               /\ atomno \in 1..Len(atoms)
               /\ heap[atoms[atomno]].name # Strip(line.atname))
               => err = "PDBError"

(***************************************************************************)
(* Properties of the keywords (SpecKeywords).                              *)
(***************************************************************************)
\* the tokens of one KEYWDS text: its maximal comma-free stretches that hold
\* something other than whitespace, each cut down to its first and last
\* such character, from left to right
TokensOf(t) ==
    LET Black(i) == t[i] \notin {" ", "\n", ","}
        Joined(i, j) == \A k \in i..j : t[k] # ","
        Firsts == {i \in 1..Len(t) :
                      Black(i) /\ \A k \in 1..(i - 1) :
                                      Black(k) => ~Joined(k, i)}
        LastOf(i) == CHOOSE j \in i..Len(t) :
                         /\ Black(j) /\ Joined(i, j)
                         /\ \A k \in (j + 1)..Len(t) :
                                Black(k) => ~Joined(i, k)
        Nth(n) == CHOOSE i \in Firsts :
                      Cardinality({k \in Firsts : k < i}) = n - 1
    IN  [n \in 1..Cardinality(Firsts) |-> SubSeq(t, Nth(n), LastOf(Nth(n)))]

\* the tokens of all KEYWDS records of a file, in file order
KeywordsOf(f) ==
    LET RECURSIVE Upto(_)
        Upto(n) == IF n = 0 THEN <<>>
                   ELSE Upto(n - 1)
                        \o (IF f[n].rec = "KEYWDS" THEN TokensOf(f[n].text)
                            ELSE <<>>)
    IN  Upto(Len(f))

NoElement(l) ==
    /\ ~KnownSym(AtSym(l.elem))
    /\ Strip(l.atname) # "" =>
           /\ ~KnownSym(Upper(FirstChar(Strip(l.atname))))
           /\ ~KnownSym(Upper(FirstChar(Strip(l.atname)))
                            \o Lower(FirstChar(Strip(l.atname))))

\* C15: the element resolution never ends the parse: whatever the element
\* and atom-name columns of a record hold (an unknown symbol, a blank or
\* one-character atom name), the record is processed, with atomic number 0
\* and mass 0.0 when none of the three lookups succeeds.
C15_ElementNeverAborts ==
    IsAtomLine(line) =>
        /\ ResolveElement(line).err = "none"
        /\ (NoElement(line) /\ pc = "reading") =>
               /\ heap[Len(heap)].atomic_number = 0
               /\ heap[Len(heap)].mass = 0

\* the first character of a stripped atom name upper-cased followed by its
\* second character lower-cased, for the names of two letters and more
UpperLower(name) ==
    CASE name = "ZN" -> "Zn" [] name = "CA" -> "Ca" [] name = "CB" -> "Cb"
      [] OTHER -> name

\* C26: the element is resolved by three strategies in order; when the
\* element columns and the one-letter lookup of the first character of the
\* atom name both fail, the symbol made of the first character upper-cased
\* and the second character lower-cased is looked up, so an atom named after
\* a two-letter element without a one-letter match gets that element's
\* atomic number and mass.
C26_TwoLetterNameResolves ==
    (/\ IsAtomLine(line)
     /\ pc = "reading"
     /\ ~KnownSym(AtSym(line.elem))
     /\ Strip(line.atname) # ""
     /\ ~KnownSym(Upper(FirstChar(Strip(line.atname))))
     /\ KnownSym(UpperLower(Strip(line.atname))))
    => /\ heap[Len(heap)].atomic_number
              = AtomicNum(UpperLower(Strip(line.atname)))
       /\ heap[Len(heap)].mass = Mass(UpperLower(Strip(line.atname)))

(***************************************************************************)
(* Properties of the steps of prune_empty_terms (SpecStruct).              *)
(***************************************************************************)
\* this step is a call of prune_empty_terms(), completed or not
PruneStep == op' \in {"prune", "prune_raised"}

\* the kinds whose terms enter the term lists of their atoms
CrossRegistered ==
    {"bonds", "angles", "dihedrals", "urey_bradleys", "impropers", "cmaps",
     "torsion_torsions"}

\* the kinds whose sweep has a branch for the term with no atom at all
FullyEmptyKinds ==
    TermKindSet \ {"chiral_frames", "multipole_frames", "adjusts"}

Dangling(slots) ==
    \E j \in 1..Len(slots) : slots[j] # None /\ Idx(slots[j], atoms) = -1
AllLive(slots) ==
    \A j \in 1..Len(slots) : slots[j] # None /\ Idx(slots[j], atoms) # -1
PartlyUnset(slots) ==
    /\ AnyNone(slots) /\ ~AllNone(slots)
    /\ ~Dangling(slots)

\* the term t of kind k is in its list after the step
Stays(k, t) == \E j \in 1..Len(lists'[k]) : lists'[k][j] = t

TermIds(k) == {lists[k][i].id : i \in 1..Len(lists[k])}

\* C16: when prune_empty_terms() removes a dangling term of a
\* cross-registered kind, the term's delete() is called exactly once; it is
\* never called on a term that stays, nor for the other kinds.
C16_DeleteOnceOnDangling ==
    [][PruneStep =>
          /\ \A k \in TermKindSet : \A i \in 1..Len(lists[k]) :
                 LET t == lists[k][i]
                 IN  IF ~Stays(k, t) /\ k \in CrossRegistered
                        /\ Dangling(t.slots)
                     THEN /\ ndelete'[t.id] = ndelete[t.id] + 1
                          /\ \A p \in registered' : p[2] # t.id
                     ELSE ndelete'[t.id] = ndelete[t.id]
          /\ \A id \in 1..Len(ndelete) :
                 (\A k \in TermKindSet : id \notin TermIds(k))
                     => ndelete'[id] = ndelete[id]]_vars

\* C16 witness: a prune removed a dangling bond through delete() and a
\* dangling chiral frame without it
C16_Witness ==
    /\ op = "prune"
    /\ \E b, c \in pruned :
           /\ b.kind = "bonds" /\ ndelete[b.id] = 1
           /\ \E j \in 1..2 : b.slots[j] # None /\ Idx(b.slots[j], atoms) = -1
           /\ c.kind = "chiral_frames" /\ ndelete[c.id] = 0
           /\ c.slots[1] # None /\ Idx(c.slots[1], atoms) = -1

\* C18: a term of a kind with a fully-empty branch in which some atoms are
\* unset and every set atom is live does not stop prune_empty_terms(), and
\* is still in its sequence afterwards.
C18_PartlyUnsetTolerated ==
    [][PruneStep =>
          \A k \in FullyEmptyKinds : \A i \in 1..Len(lists[k]) :
              PartlyUnset(lists[k][i].slots) =>
                  (op' = "prune" /\ Stays(k, lists[k][i]))]_vars

C25_FlagsMonotonic ==
    [][/\ \A n \in DOMAIN changed : changed[n] => changed'[n]
       /\ op' = "is_changed" => changed' = changed]_vars

\* C25 witness: is_changed() answered true after a prune that took a term
\* out, the flag of that sequence still set
C25_Witness ==
    /\ op = "is_changed"
    /\ ret
    /\ \E r \in pruned : changed[r.kind]
    /\ changed["atoms"]

=============================================================================
